---- MODULE Spec2Model ----
(***************************************************************************)
(* A model of the CharacterAI backend: the story chunker, the summarizer,  *)
(* the submit/poll job tracker over the document store, and the response   *)
(* cache of /charactername and /ask.                                       *)
(*                                                                         *)
(* The repository holds three versions of the server file.  `variant`      *)
(* says which one is running:                                              *)
(*   "index"    src/index.js           /submitStory (chunked summarizer,   *)
(*                                     vector-store add), /getSummary      *)
(*   "part_000" src/unnamed/part_000   /submitStory (one-call summarizer,  *)
(*                                     no vector store), /getSummary       *)
(*   "part_001" src/unnamed/part_001   /add (summarizes before answering)  *)
(*                                                                         *)
(* Texts are sequences of one-character strings.                           *)
(***************************************************************************)
EXTENDS Naturals, Sequences, FiniteSets, TLC

VARIABLES
    variant,      \* which server file is running
    collection,   \* the module-level `collection`: "undefined" or "ready"
    db,           \* the Story collection: a sequence of records, _id = index
    subs,         \* the submissions (/submitStory, /add) and their tasks
    poll,         \* the latest GET /getSummary/:id request and its response
    cache,        \* the NodeCache: key -> value, for the keys that are set
    reqs,         \* the /charactername and /ask requests
    now,          \* Date.now(), in seconds since the server started
    text,         \* chunkStory's argument `story`
    maxChunkSize, \* chunkStory's argument `maxChunkSize`
    chunks,       \* chunkStory's result
    chunkPc       \* "ready" before the call of chunkStory, "done" after

vars == <<variant, collection, db, subs, poll, cache, reqs, now,
          text, maxChunkSize, chunks, chunkPc>>

jobVars == <<variant, collection, db, subs, poll>>
cacheVars == <<cache, reqs, now>>
chunkVars == <<text, maxChunkSize, chunks, chunkPc>>

---------------------------------------------------------------------------
(* Bounds *)

MaxSubmits == 2
MaxRequests == 2
MaxTicks == 2
MaxTextLen == 4
MaxChunk == 3

---------------------------------------------------------------------------
(* Strings *)

Space == " "

\* A request field that is missing from the JSON body.
undefined == <<"<undefined>">>

Min(a, b) == IF a <= b THEN a ELSE b

\* String.prototype.substring(from, to)
substring(s, from, to) == SubSeq(s, from + 1, Min(to, Len(s)))

RECURSIVE TrimStart(_)
TrimStart(s) ==
    IF s # <<>> /\ Head(s) = Space THEN TrimStart(Tail(s)) ELSE s

RECURSIVE TrimEnd(_)
TrimEnd(s) ==
    IF s # <<>> /\ s[Len(s)] = Space
    THEN TrimEnd(SubSeq(s, 1, Len(s) - 1))
    ELSE s

\* String.prototype.trim()
trim(s) == TrimEnd(TrimStart(s))

\* String.prototype.split(' '): the pieces between the spaces, empty pieces kept
RECURSIVE split(_)
split(s) ==
    IF \A i \in 1..Len(s) : s[i] # Space
    THEN <<s>>
    ELSE LET i == CHOOSE j \in 1..Len(s) :
                      s[j] = Space /\ \A k \in 1..(j - 1) : s[k] # Space
         IN  <<SubSeq(s, 1, i - 1)>> \o split(SubSeq(s, i + 1, Len(s)))

\* All texts over `alphabet` of length at most n
RECURSIVE TextsUpTo(_, _)
TextsUpTo(alphabet, n) ==
    IF n = 0 THEN {<<>>}
    ELSE LET shorter == TextsUpTo(alphabet, n - 1)
         IN  shorter \cup {Append(s, c) : s \in shorter, c \in alphabet}

---------------------------------------------------------------------------
(* chunkStory *)

DefaultMaxChunkSize == 1000

\* chunkLoop without the push of the last chunk after the loop.
RECURSIVE chunkLoopNoTail(_, _, _, _)
chunkLoopNoTail(words, currentChunk, acc, size) ==
    IF words = <<>>
    THEN acc
    ELSE LET word == Head(words)
         IN  IF Len(currentChunk \o <<Space>> \o word) <= size
             THEN chunkLoopNoTail(Tail(words),
                                  currentChunk
                                    \o (IF currentChunk # <<>> THEN <<Space>> ELSE <<>>)
                                    \o word,
                                  acc, size)
             ELSE chunkLoopNoTail(Tail(words), word, Append(acc, currentChunk),
                                  size)

\* chunkLoop that starts the next chunk empty instead of with the word that
\* did not fit.
RECURSIVE chunkLoopDropsWord(_, _, _, _)
chunkLoopDropsWord(words, currentChunk, acc, size) ==
    IF words = <<>>
    THEN IF currentChunk # <<>> THEN Append(acc, currentChunk) ELSE acc
    ELSE LET word == Head(words)
         IN  IF Len(currentChunk \o <<Space>> \o word) <= size
             THEN chunkLoopDropsWord(Tail(words),
                                     currentChunk
                                       \o (IF currentChunk # <<>> THEN <<Space>> ELSE <<>>)
                                       \o word,
                                     acc, size)
             ELSE chunkLoopDropsWord(Tail(words), <<>>,
                                     Append(acc, currentChunk), size)

\* The for loop of chunkStory and the push of the last chunk after it.
RECURSIVE chunkLoop(_, _, _, _)
chunkLoop(words, currentChunk, acc, size) ==
    IF words = <<>>
    THEN IF currentChunk # <<>> THEN Append(acc, currentChunk) ELSE acc
    ELSE LET word == Head(words)
         IN  IF Len(currentChunk \o <<Space>> \o word) <= size
             THEN chunkLoop(Tail(words),
                            currentChunk
                              \o (IF currentChunk # <<>> THEN <<Space>> ELSE <<>>)
                              \o word,
                            acc, size)
             ELSE chunkLoop(Tail(words), word, Append(acc, currentChunk), size)

\* chunkStory that lets a chunk grow one character beyond maxChunkSize.
chunkStoryOffByOne(story, size) == chunkLoop(split(story), <<>>, <<>>, size + 1)

chunkStory(story, size) == chunkLoop(split(story), <<>>, <<>>, size)

ChunkTexts == TextsUpTo({"a", Space}, MaxTextLen)

InitChunk ==
    /\ text \in ChunkTexts
    /\ maxChunkSize \in 1..MaxChunk
    /\ chunks = <<>>
    /\ chunkPc = "ready"

IdleChunk ==
    /\ text = <<>>
    /\ maxChunkSize = 1
    /\ chunks = <<>>
    /\ chunkPc = "ready"

\* A call chunkStory(text, maxChunkSize)
CallChunkStory ==
    /\ chunkPc = "ready"
    /\ chunks' = chunkStory(text, maxChunkSize)
    /\ chunkPc' = "done"
    /\ UNCHANGED <<text, maxChunkSize, jobVars, cacheVars>>

---------------------------------------------------------------------------
(* The text-generation service and the request bodies *)

\* completion.choices[0].message.content of a successful call
LLMTexts == {<<Space>>, <<Space, "a">>, <<"b">>}

\* req.body.story of /submitStory and /add
StoryInputs == {undefined, <<Space>>, <<"a">>}

\* JavaScript truthiness of a string or undefined: '' and undefined are falsy
Truthy(s) == s # <<>> /\ s # undefined

\* A value in a template literal: a missing field prints as "undefined"
Interpolate(v) ==
    IF v = undefined
    THEN <<"u", "n", "d", "e", "f", "i", "n", "e", "d">>
    ELSE v

\* The fixed message of the 500 response of each handler
ErrorMessage(handler) ==
    CASE handler = "submitStory" -> "An error occurred while submitting the story."
      [] handler = "getSummary" -> "An error occurred while fetching the summary."
      [] handler = "add" -> "An error occurred while adding the story."
      [] handler = "charactername" ->
             "An error occurred while extracting character names."
      [] handler = "ask" -> "An error occurred while processing your query."

---------------------------------------------------------------------------
(* Submissions: POST /submitStory with its background task, and POST /add *)

\* A submission: the request, its response, and the position of the code
\* that summarizes its story.
\*   pc           "none" | "scheduled" | "chunk" | "final" | "saving"
\*                | "adding" | "done" | "failed"
\*   k            the chunk whose summarization call is awaited
\*   id           _id of storyDoc (0: no document saved)
\*   status       the response's status (0: no response yet)
\*   calls        text-generation calls issued so far for this submission
\*   callsAtResp  `calls` when the response was sent
\*   failedAt     where the code threw: "none" | "summarize" | "save" | "add"
\*   saved        the save that stores the summary has succeeded
\*   returned     text-generation calls of this submission that have returned
\*   userContent  the user message of the latest text-generation request:
\*                the template it was built from and the value it carries
\*   threw        a failure was raised in the request handler
\*   error        the error message of the response, "" when it carries none
\*   sent         the number of responses sent
NoRequest == [template |-> "none", arg |-> <<>>]
NewSub(handler, story) ==
    [handler |-> handler, story |-> story, pc |-> "none", k |-> 0,
     fullSummary |-> <<>>, summary |-> <<>>, id |-> 0, status |-> 0,
     calls |-> 0, callsAtResp |-> 0, failedAt |-> "none", saved |-> FALSE,
     returned |-> 0, userContent |-> NoRequest,
     threw |-> FALSE, error |-> "", sent |-> 0]

\* `Please summarize the following text: "${chunk}"`
ChunkRequest(chunk) == [template |-> "summarize", arg |-> Interpolate(chunk)]

\* `Please write a creative and short story based on the following text:
\* "${story}"`
FinalRequest(story) == [template |-> "story", arg |-> Interpolate(story)]

\* A new document of the Story model.  createdBy, writes and writtenBy
\* observe the writers of the document; they are not stored fields.
NewStory(story, summary, by) ==
    [original_story |-> story, summary |-> summary,
     createdBy |-> by, writes |-> 0, writtenBy |-> 0]

\* An exception leaves the code of submission s.  In the timer callback of
\* /submitStory nothing catches it; in /add the handler's catch answers 500.
\* (a variant in which /add has no catch either)
ThrowUncaught(s, where) ==
    [s EXCEPT !.pc = "failed", !.failedAt = where, !.k = 0,
              !.fullSummary = <<>>,
              !.userContent = IF where = "summarize" THEN NoRequest ELSE @,
              !.threw = (s.handler = "add")]

Throw(s, where) ==
    IF s.handler = "add"
    THEN [s EXCEPT !.pc = "failed", !.failedAt = where, !.k = 0,
                   !.fullSummary = <<>>,
                   !.userContent = IF where = "summarize" THEN NoRequest ELSE @,
                   !.threw = TRUE, !.status = 500,
                   !.error = ErrorMessage("add"), !.sent = @ + 1,
                   !.callsAtResp = s.calls]
    ELSE [s EXCEPT !.pc = "failed", !.failedAt = where, !.k = 0,
                   !.fullSummary = <<>>,
                   !.userContent = IF where = "summarize" THEN NoRequest ELSE @]

Chunks(story) == chunkStory(story, DefaultMaxChunkSize)

\* summarizeStory(story) up to its first await.
\* (a variant that issues the calls of all chunks at once)
summarizeStoryAllAtOnce(s) ==
    IF variant = "part_000"
    THEN [s EXCEPT !.pc = "final", !.calls = @ + 1,
                   !.userContent = FinalRequest(s.story)]
    ELSE IF s.story = undefined
    THEN Throw(s, "summarize")
    ELSE IF Chunks(s.story) = <<>>
    THEN [s EXCEPT !.pc = "final", !.calls = @ + 1,
                   !.userContent = FinalRequest(s.story)]
    ELSE [s EXCEPT !.pc = "chunk", !.k = 1, !.calls = Len(Chunks(s.story)),
                   !.userContent = ChunkRequest(Chunks(s.story)[1])]

summarizeStoryBegin(s) ==
    IF variant = "part_000"
    THEN [s EXCEPT !.pc = "final", !.calls = @ + 1,
                   !.userContent = FinalRequest(s.story)]
    ELSE IF s.story = undefined
    THEN Throw(s, "summarize")
    ELSE IF Chunks(s.story) = <<>>
    THEN [s EXCEPT !.pc = "final", !.calls = @ + 1,
                   !.userContent = FinalRequest(s.story)]
    ELSE [s EXCEPT !.pc = "chunk", !.k = 1, !.calls = @ + 1,
                   !.userContent = ChunkRequest(Chunks(s.story)[1])]

\* collection.add(...) is called: a TypeError while `collection` is undefined
CallCollectionAdd(s) ==
    IF collection = "ready" THEN [s EXCEPT !.pc = "adding"] ELSE Throw(s, "add")

\* SubmitStory with summarizeStory(story) called in the handler itself,
\* before the response, instead of in the timer callback.
SubmitStoryEager(story) ==
    /\ variant \in {"index", "part_000"}
    /\ Len(subs) < MaxSubmits
    /\ db' = Append(db, NewStory(story, <<>>, Len(subs) + 1))
    /\ LET s == summarizeStoryBegin([NewSub("submitStory", story) EXCEPT
                                        !.id = Len(db) + 1])
       IN  subs' = Append(subs, [s EXCEPT !.status = 200, !.sent = @ + 1,
                                          !.callsAtResp = s.calls])
    /\ UNCHANGED <<variant, collection, poll, cacheVars, chunkVars>>

\* POST /submitStory whose storyDoc.save() succeeds: the document is stored,
\* the timer is set and the response is sent.
SubmitStory(story) ==
    /\ variant \in {"index", "part_000"}
    /\ Len(subs) < MaxSubmits
    /\ db' = Append(db, NewStory(story, <<>>, Len(subs) + 1))
    /\ subs' = Append(subs, [NewSub("submitStory", story) EXCEPT
                                !.pc = "scheduled", !.id = Len(db) + 1,
                                !.status = 200, !.sent = @ + 1,
                                !.callsAtResp = 0])
    /\ UNCHANGED <<variant, collection, poll, cacheVars, chunkVars>>

\* POST /submitStory whose storyDoc.save() fails: the catch answers 500.
SubmitStoryFail(story) ==
    /\ variant \in {"index", "part_000"}
    /\ Len(subs) < MaxSubmits
    /\ subs' = Append(subs, [NewSub("submitStory", story) EXCEPT
                                !.threw = TRUE, !.status = 500,
                                !.error = ErrorMessage("submitStory"),
                                !.sent = @ + 1])
    /\ UNCHANGED <<variant, collection, db, poll, cacheVars, chunkVars>>

\* The timer of submission i fires: summarizeStory(story) starts.
TaskStart(i) ==
    /\ subs[i].pc = "scheduled"
    /\ subs' = [subs EXCEPT ![i] = summarizeStoryBegin(@)]
    /\ UNCHANGED <<variant, collection, db, poll, cacheVars, chunkVars>>

\* POST /add: the handler awaits summarizeStory(story).
AddStory(story) ==
    /\ variant = "part_001"
    /\ Len(subs) < MaxSubmits
    /\ subs' = Append(subs, summarizeStoryBegin(NewSub("add", story)))
    /\ UNCHANGED <<variant, collection, db, poll, cacheVars, chunkVars>>

\* The summarization call of chunk k returns t.
ChunkReply(i, t) ==
    /\ subs[i].pc = "chunk"
    /\ LET s == subs[i]
           fs == s.fullSummary \o trim(t) \o <<Space>>
       IN  subs' = [subs EXCEPT ![i] =
                IF s.k < Len(Chunks(s.story))
                THEN [s EXCEPT !.fullSummary = fs, !.k = @ + 1, !.calls = @ + 1,
                               !.returned = @ + 1,
                               !.userContent =
                                   ChunkRequest(Chunks(s.story)[s.k + 1])]
                ELSE [s EXCEPT !.fullSummary = fs, !.pc = "final",
                               !.calls = @ + 1, !.returned = @ + 1,
                               !.userContent = FinalRequest(s.story)]]
    /\ UNCHANGED <<variant, collection, db, poll, cacheVars, chunkVars>>

\* The final call returns t: summarizeStory returns t.trim() (its locals are
\* gone), and the caller awaits storyDoc.save().
FinalReply(i, t) ==
    /\ subs[i].pc = "final"
    /\ subs' = [subs EXCEPT ![i] = [@ EXCEPT !.summary = trim(t), !.pc = "saving",
                                             !.k = 0, !.fullSummary = <<>>,
                                             !.returned = @ + 1]]
    /\ UNCHANGED <<variant, collection, db, poll, cacheVars, chunkVars>>

\* LLMFail with a handler that records the failure in the document.
LLMFailRecorded(i) ==
    /\ subs[i].pc \in {"chunk", "final"}
    /\ subs' = [subs EXCEPT ![i] = Throw(@, "summarize")]
    /\ db' = IF subs[i].id = 0 THEN db
             ELSE [db EXCEPT ![subs[i].id].summary = <<"e">>]
    /\ UNCHANGED <<variant, collection, poll, cacheVars, chunkVars>>

\* A text-generation call of summarizeStory fails.
LLMFail(i) ==
    /\ subs[i].pc \in {"chunk", "final"}
    /\ subs' = [subs EXCEPT ![i] = Throw(@, "summarize")]
    /\ UNCHANGED <<variant, collection, db, poll, cacheVars, chunkVars>>

\* StoreSave that assigns the summary to original_story as well.
StoreSaveBothFields(i) ==
    LET s == subs[i]
    IN  IF s.handler = "add"
        THEN Append(db, NewStory(s.story, s.summary, i))
        ELSE [db EXCEPT ![s.id] = [@ EXCEPT !.original_story = s.summary,
                                            !.summary = s.summary,
                                            !.writes = @ + 1,
                                            !.writtenBy = i]]

\* (a variant in which the tasks share one storyDoc, the latest)
StoreSaveSharedDoc(i) ==
    LET s == subs[i]
    IN  IF s.handler = "add"
        THEN Append(db, NewStory(s.story, s.summary, i))
        ELSE [db EXCEPT ![Len(db)] = [@ EXCEPT !.summary = s.summary,
                                               !.writes = @ + 1,
                                               !.writtenBy = i]]

\* The document store applies the save of submission i.
StoreSave(i) ==
    LET s == subs[i]
    IN  IF s.handler = "add"
        THEN Append(db, NewStory(s.story, s.summary, i))
        ELSE [db EXCEPT ![s.id] = [@ EXCEPT !.summary = s.summary,
                                            !.writes = @ + 1,
                                            !.writtenBy = i]]

\* await storyDoc.save() returns; what follows it runs up to the next await.
SaveOk(i) ==
    /\ subs[i].pc = "saving"
    /\ db' = StoreSave(i)
    /\ LET s == [subs[i] EXCEPT !.saved = TRUE,
                                !.id = IF @ = 0 THEN Len(db) + 1 ELSE @]
       IN  subs' = [subs EXCEPT ![i] =
                IF variant = "part_000"
                THEN [s EXCEPT !.pc = "done"]
                ELSE CallCollectionAdd(s)]
    /\ UNCHANGED <<variant, collection, poll, cacheVars, chunkVars>>

\* SaveFail where the rejected save has stored the document all the same.
SaveFailStored(i) ==
    /\ subs[i].pc = "saving"
    /\ db' = StoreSave(i)
    /\ subs' = [subs EXCEPT ![i] = Throw(@, "save")]
    /\ UNCHANGED <<variant, collection, poll, cacheVars, chunkVars>>

\* await storyDoc.save() rejects: nothing is stored.
SaveFail(i) ==
    /\ subs[i].pc = "saving"
    /\ subs' = [subs EXCEPT ![i] = Throw(@, "save")]
    /\ UNCHANGED <<variant, collection, db, poll, cacheVars, chunkVars>>

\* await collection.add(...) returns; /add then answers 200.
AddOk(i) ==
    /\ subs[i].pc = "adding"
    /\ LET s == subs[i]
       IN  subs' = [subs EXCEPT ![i] =
                IF s.handler = "add"
                THEN [s EXCEPT !.pc = "done", !.status = 200, !.sent = @ + 1,
                               !.callsAtResp = s.calls]
                ELSE [s EXCEPT !.pc = "done"]]
    /\ UNCHANGED <<variant, collection, db, poll, cacheVars, chunkVars>>

\* await collection.add(...) rejects.
AddFail(i) ==
    /\ subs[i].pc = "adding"
    /\ subs' = [subs EXCEPT ![i] = Throw(@, "add")]
    /\ UNCHANGED <<variant, collection, db, poll, cacheVars, chunkVars>>

\* chromaClient.getOrCreateCollection(...) resolves and `collection` is set.
\* When it rejects, `collection` stays undefined.
CollectionInit ==
    /\ variant \in {"index", "part_001"}
    /\ collection = "undefined"
    /\ collection' = "ready"
    /\ UNCHANGED <<variant, db, subs, poll, cacheVars, chunkVars>>

---------------------------------------------------------------------------
(* GET /getSummary/:id *)

\* req.params.id: the 24 hex digits of an ObjectId (n names it), or any
\* other string.
ObjectId(n) == [malformed |-> FALSE, n |-> n]
MalformedId == [malformed |-> TRUE, n |-> 0]
PollIds == {ObjectId(n) : n \in 1..(MaxSubmits + 1)} \cup {MalformedId}

\* The background task of the document `id` names has saved its summary.
SavedFor(id) ==
    /\ ~id.malformed
    /\ id.n \in 1..Len(db)
    /\ subs[db[id.n].createdBy].saved

\* The task of the document `id` names has thrown.
FailedFor(id) ==
    /\ ~id.malformed
    /\ id.n \in 1..Len(db)
    /\ subs[db[id.n].createdBy].pc = "failed"

\* The latest GET /getSummary/:id.
\*   pc             "idle" | "lookup" (Story.findById is awaited) | "answered"
\*   known          the document existed when the request arrived
\*   afterSave      its task had saved the summary when the request arrived
\*   afterFail      its task had thrown when the request arrived
\*   savedAtLookup  its task had saved the summary when findById read it
\*   outcome        how findById settled: "doc" | "null" | "CastError"
\*                  | "storeError"
IdlePoll ==
    [pc |-> "idle", id |-> MalformedId, known |-> FALSE, afterSave |-> FALSE,
     afterFail |-> FALSE, savedAtLookup |-> FALSE, outcome |-> "none",
     status |-> 0, summary |-> <<>>, error |-> "", sent |-> 0]

\* Story.findById(storyId): the id is cast to an ObjectId, which rejects
\* with a CastError for a string that is none; else the document or null.
findById(id) ==
    IF id.malformed THEN "CastError"
    ELSE IF id.n \in 1..Len(db) THEN "doc"
    ELSE "null"

\* GET /getSummary/:id arrives; the handler awaits Story.findById.
PollStart(id) ==
    /\ variant \in {"index", "part_000"}
    /\ poll.pc \in {"idle", "answered"}
    /\ poll' = [IdlePoll EXCEPT !.pc = "lookup", !.id = id,
                                !.known = (findById(id) = "doc"),
                                !.afterSave = SavedFor(id),
                                !.afterFail = FailedFor(id)]
    /\ UNCHANGED <<variant, collection, db, subs, cacheVars, chunkVars>>

\* getSummaryAnswer without the test of storyDoc.summary.
getSummaryAnswerUntested(found) ==
    IF found = "CastError"
    THEN [poll EXCEPT !.pc = "answered", !.outcome = found, !.status = 500,
                      !.error = ErrorMessage("getSummary"), !.sent = @ + 1]
    ELSE IF found = "null"
    THEN [poll EXCEPT !.pc = "answered", !.outcome = found, !.status = 404,
                      !.error = "Story not found", !.sent = @ + 1]
    ELSE [poll EXCEPT !.pc = "answered", !.outcome = found, !.status = 200,
                      !.sent = @ + 1,
                      !.summary = db[poll.id.n].summary,
                      !.savedAtLookup = SavedFor(poll.id)]

\* The handler's code after Story.findById has settled with `found`.
getSummaryAnswer(found) ==
    IF found = "CastError"
    THEN [poll EXCEPT !.pc = "answered", !.outcome = found, !.status = 500,
                      !.error = ErrorMessage("getSummary"), !.sent = @ + 1]
    ELSE IF found = "null"
    THEN [poll EXCEPT !.pc = "answered", !.outcome = found, !.status = 404,
                      !.error = "Story not found", !.sent = @ + 1]
    ELSE LET storyDoc == db[poll.id.n]
         IN  IF Truthy(storyDoc.summary)
             THEN [poll EXCEPT !.pc = "answered", !.outcome = found,
                               !.status = 200, !.summary = storyDoc.summary,
                               !.sent = @ + 1,
                               !.savedAtLookup = SavedFor(poll.id)]
             ELSE [poll EXCEPT !.pc = "answered", !.outcome = found,
                               !.status = 202, !.sent = @ + 1,
                               !.savedAtLookup = SavedFor(poll.id)]

\* Story.findById settles and the handler answers.
PollRespond ==
    /\ poll.pc = "lookup"
    /\ poll' = getSummaryAnswer(findById(poll.id))
    /\ UNCHANGED <<variant, collection, db, subs, cacheVars, chunkVars>>

\* Story.findById rejects because the store failed: the catch answers 500.
PollStoreFail ==
    /\ poll.pc = "lookup"
    /\ poll' = [poll EXCEPT !.pc = "answered", !.outcome = "storeError",
                            !.status = 500,
                            !.error = ErrorMessage("getSummary"),
                            !.sent = @ + 1]
    /\ UNCHANGED <<variant, collection, db, subs, cacheVars, chunkVars>>

---------------------------------------------------------------------------
(* The response cache: POST /charactername and POST /ask *)

\* new NodeCache() keeps entries for ever (stdTTL 0);
\* new NodeCache({ stdTTL: 600 }) keeps them for 600 seconds.
StdTTL600 == 600
stdTTL == IF variant = "part_001" THEN StdTTL600 ELSE 0

\* The clock advances in steps of this many seconds.
TickSeconds == 400

\* The length of the prefix of a text that enters a cache key
KeyPrefixLen == 50

CharacterNamesTag ==
    <<"c", "h", "a", "r", "a", "c", "t", "e", "r", "_",
      "n", "a", "m", "e", "s", "_">>
ResponseTag == <<"r", "e", "s", "p", "o", "n", "s", "e", "_">>

\* `character_names_${story.substring(0, 50)}`
characterNamesKey(story) ==
    CharacterNamesTag \o substring(story, 0, KeyPrefixLen)

\* `response_${query.substring(0, 50)}_${characterName}_${summarizedStory.substring(0, 50)}`
responseKey(query, characterName, summarizedStory) ==
    ResponseTag \o substring(query, 0, KeyPrefixLen) \o <<"_">>
        \o Interpolate(characterName) \o <<"_">>
        \o substring(summarizedStory, 0, KeyPrefixLen)

\* An entry of the cache is [key, value, t]: t is the time it expires at,
\* 0 for an entry that never expires.
Expired(e) == e.t # 0 /\ e.t < now

\* cache.get(key): the value of a live entry, else undefined
cacheGet(key) ==
    IF \E e \in cache : e.key = key /\ ~Expired(e)
    THEN (CHOOSE e \in cache : e.key = key).value
    ELSE undefined

\* cache.get(key) deletes the entry it finds expired
cacheAfterGet(key) == {e \in cache : ~(e.key = key /\ Expired(e))}

\* cache.set(key, value)
cacheSet(key, value) ==
    {e \in cache : e.key # key}
        \cup {[key |-> key, value |-> value,
               t |-> IF stdTTL = 0 THEN 0 ELSE now + stdTTL]}

\* completion.choices[0].message.content of /charactername and /ask
CacheTexts == {<<>>, <<Space, "a">>, <<"b">>}

\* A text of KeyPrefixLen characters followed by the character c
LongText(c) == [n \in 1..KeyPrefixLen |-> "a"] \o <<c>>

\* req.body of /charactername
CharacterNameBodies ==
    {[story |-> <<"a">>], [story |-> <<"b">>], [story |-> undefined],
     [story |-> LongText("x")], [story |-> LongText("y")]}

\* req.body of /ask
AskBodies ==
    {[query |-> <<"q">>, characterName |-> <<"n">>, summarizedStory |-> <<"s">>],
     [query |-> undefined, characterName |-> <<"n">>, summarizedStory |-> <<"s">>],
     [query |-> LongText("x"), characterName |-> <<"n">>,
      summarizedStory |-> LongText("x")],
     [query |-> LongText("y"), characterName |-> <<"n">>,
      summarizedStory |-> LongText("y")],
     [query |-> <<"q">>, characterName |-> <<"n", "_", "n">>,
      summarizedStory |-> <<"s">>],
     [query |-> <<"q", "_", "n">>, characterName |-> <<"n">>,
      summarizedStory |-> <<"s">>]}


\* A request of /charactername or /ask.
\*   pc        "await" while the text-generation call is awaited, else "done"
\*   called    the request issued a text-generation call
\*   before    the requests that had been answered when this one arrived
\*   entry     what the cache held under the key when the request looked it
\*             up: "none", a "live" entry or an "expired" one
\*   threw     a failure was raised in the handler
\*   error     the error message of the response, "" when it carries none
\*   sent      the number of responses sent
NewReq(endpoint, body) ==
    [endpoint |-> endpoint, body |-> body, key |-> <<>>, pc |-> "await",
     status |-> 0, response |-> <<>>, called |-> FALSE,
     before |-> {j \in 1..Len(reqs) : reqs[j].pc = "done"},
     entry |-> "none", threw |-> FALSE, error |-> "", sent |-> 0]

\* res.status(200).json({ response: value })
Respond(r, value) ==
    [r EXCEPT !.pc = "done", !.status = 200, !.response = value,
              !.sent = @ + 1]

\* A failure raised in the try block: the catch of the handler answers 500
\* with the handler's message.
Catch(r) ==
    [r EXCEPT !.pc = "done", !.threw = TRUE, !.status = 500,
              !.error = ErrorMessage(r.endpoint), !.sent = @ + 1]

\* The handler from the cache lookup to its return or its await.
LookUp(r, key) ==
    LET cached == cacheGet(key)
        found == IF \E e \in cache : e.key = key /\ Expired(e) THEN "expired"
                 ELSE IF \E e \in cache : e.key = key THEN "live"
                 ELSE "none"
        q == [r EXCEPT !.key = key, !.entry = found]
    IN  IF Truthy(cached)
        THEN Respond(q, cached)
        ELSE [q EXCEPT !.called = TRUE]

\* POST /charactername arrives.  story.substring throws a TypeError when the
\* field is missing, and the catch answers 500.
CharacterName(body) ==
    /\ Len(reqs) < MaxRequests
    /\ IF body.story = undefined
       THEN /\ reqs' = Append(reqs, Catch(NewReq("charactername", body)))
            /\ cache' = cache
       ELSE LET key == characterNamesKey(body.story)
            IN  /\ reqs' = Append(reqs, LookUp(NewReq("charactername", body), key))
                /\ cache' = cacheAfterGet(key)
    /\ UNCHANGED <<now, jobVars, chunkVars>>

\* POST /ask arrives.
Ask(body) ==
    /\ Len(reqs) < MaxRequests
    /\ IF body.query = undefined \/ body.summarizedStory = undefined
       THEN /\ reqs' = Append(reqs, Catch(NewReq("ask", body)))
            /\ cache' = cache
       ELSE LET key == responseKey(body.query, body.characterName,
                                   body.summarizedStory)
            IN  /\ reqs' = Append(reqs, LookUp(NewReq("ask", body), key))
                /\ cache' = cacheAfterGet(key)
    /\ UNCHANGED <<now, jobVars, chunkVars>>

\* The value a handler caches and returns for the content t of the completion:
\* /charactername trims it, /ask does not.
Extract(endpoint, t) == IF endpoint = "charactername" THEN trim(t) ELSE t

\* The text-generation call of request i returns t: the value is cached
\* under the request's key and returned.
CompletionReply(i, t) ==
    /\ reqs[i].pc = "await"
    /\ LET value == Extract(reqs[i].endpoint, t)
       IN  /\ cache' = cacheSet(reqs[i].key, value)
           /\ reqs' = [reqs EXCEPT ![i] = Respond(@, value)]
    /\ UNCHANGED <<now, jobVars, chunkVars>>

\* (a variant that stores the failure under the key)
CompletionFailStored(i) ==
    /\ reqs[i].pc = "await"
    /\ cache' = cacheSet(reqs[i].key, <<"e">>)
    /\ reqs' = [reqs EXCEPT ![i] = Catch(@)]
    /\ UNCHANGED <<now, jobVars, chunkVars>>

\* The text-generation call of request i fails: the catch answers 500.
CompletionFail(i) ==
    /\ reqs[i].pc = "await"
    /\ reqs' = [reqs EXCEPT ![i] = Catch(@)]
    /\ UNCHANGED <<cache, now, jobVars, chunkVars>>

\* Time passes.
Tick ==
    /\ now < MaxTicks * TickSeconds
    /\ now' = now + TickSeconds
    /\ UNCHANGED <<cache, reqs, jobVars, chunkVars>>

---------------------------------------------------------------------------
(* The specification of the job tracker *)

IdleCache ==
    /\ cache = {}
    /\ reqs = <<>>
    /\ now = 0

Init ==
    /\ variant \in {"index", "part_000", "part_001"}
    /\ collection = "undefined"
    /\ db = <<>>
    /\ subs = <<>>
    /\ poll = IdlePoll
    /\ IdleCache
    /\ IdleChunk

Next ==
    \/ \E story \in StoryInputs : SubmitStory(story)
    \/ \E story \in StoryInputs : SubmitStoryFail(story)
    \/ \E story \in StoryInputs : AddStory(story)
    \/ \E i \in 1..Len(subs) : TaskStart(i)
    \/ \E i \in 1..Len(subs), t \in LLMTexts : ChunkReply(i, t)
    \/ \E i \in 1..Len(subs), t \in LLMTexts : FinalReply(i, t)
    \/ \E i \in 1..Len(subs) : LLMFail(i)
    \/ \E i \in 1..Len(subs) : SaveOk(i)
    \/ \E i \in 1..Len(subs) : SaveFail(i)
    \/ \E i \in 1..Len(subs) : AddOk(i)
    \/ \E i \in 1..Len(subs) : AddFail(i)
    \/ CollectionInit
    \/ \E id \in PollIds : PollStart(id)
    \/ PollRespond
    \/ PollStoreFail

Spec == Init /\ [][Next]_vars

---------------------------------------------------------------------------
(* The specification of chunkStory on bounded inputs *)

InitChunkSpec ==
    /\ variant = "index"
    /\ collection = "undefined"
    /\ db = <<>>
    /\ subs = <<>>
    /\ poll = IdlePoll
    /\ IdleCache
    /\ InitChunk

NextChunk == CallChunkStory

SpecChunk == InitChunkSpec /\ [][NextChunk]_vars

---------------------------------------------------------------------------
(* The specification of the response cache *)

InitCache ==
    /\ variant \in {"index", "part_001"}
    /\ collection = "undefined"
    /\ db = <<>>
    /\ subs = <<>>
    /\ poll = IdlePoll
    /\ cache = {}
    /\ reqs = <<>>
    /\ now = 0
    /\ IdleChunk

NextCache ==
    \/ \E body \in CharacterNameBodies : CharacterName(body)
    \/ \E body \in AskBodies : Ask(body)
    \/ \E i \in 1..Len(reqs), t \in CacheTexts : CompletionReply(i, t)
    \/ \E i \in 1..Len(reqs) : CompletionFail(i)
    \/ Tick

SpecCache == InitCache /\ [][NextCache]_vars

---------------------------------------------------------------------------
(* The specification of all five handlers.  The handlers of the job tracker
   and those of the response cache share no state, so each kind of traffic
   is followed on its own: the job handlers run while no cached request has
   arrived, the cached handlers while no story has been submitted or polled. *)

NextHandlers ==
    \/ reqs = <<>> /\ now = 0 /\ Next
    \/ subs = <<>> /\ poll.pc = "idle" /\ NextCache

SpecHandlers == Init /\ [][NextHandlers]_vars

---------------------------------------------------------------------------
(* The specification of summarizeStory on stories of more than one chunk *)

\* The length of the two words of LongStory: together they exceed
\* DefaultMaxChunkSize, each alone does not.
LongWordLen == 600

\* A story that chunkStory cuts into two chunks
LongStory ==
    [n \in 1..LongWordLen |-> "a"] \o <<Space>> \o [n \in 1..LongWordLen |-> "b"]

SummarizerStories == {undefined, <<"a">>, LongStory}

NextSummarizer ==
    \/ \E story \in SummarizerStories : SubmitStory(story)
    \/ \E story \in SummarizerStories : AddStory(story)
    \/ \E i \in 1..Len(subs) : TaskStart(i)
    \/ \E i \in 1..Len(subs), t \in LLMTexts : ChunkReply(i, t)
    \/ \E i \in 1..Len(subs), t \in LLMTexts : FinalReply(i, t)
    \/ \E i \in 1..Len(subs) : LLMFail(i)
    \/ \E i \in 1..Len(subs) : SaveOk(i)
    \/ \E i \in 1..Len(subs) : SaveFail(i)
    \/ \E i \in 1..Len(subs) : AddOk(i)
    \/ \E i \in 1..Len(subs) : AddFail(i)
    \/ CollectionInit

SpecSummarizer == Init /\ [][NextSummarizer]_vars

---------------------------------------------------------------------------
(* The specification of /submitStory and /getSummary when every
   text-generation call and every store call returns successfully.  The
   timer of a submission fires and an awaited call that can return does
   return: each step of a background task is weakly fair.  Clients are
   not obliged to submit or to poll. *)

InitLive ==
    /\ variant \in {"index", "part_000"}
    /\ collection = "undefined"
    /\ db = <<>>
    /\ subs = <<>>
    /\ poll = IdlePoll
    /\ IdleCache
    /\ IdleChunk

NextLive ==
    \/ \E story \in StoryInputs : SubmitStory(story)
    \/ \E i \in 1..Len(subs) : TaskStart(i)
    \/ \E i \in 1..Len(subs), t \in LLMTexts : ChunkReply(i, t)
    \/ \E i \in 1..Len(subs), t \in LLMTexts : FinalReply(i, t)
    \/ \E i \in 1..Len(subs) : SaveOk(i)
    \/ \E i \in 1..Len(subs) : AddOk(i)
    \/ CollectionInit
    \/ \E id \in PollIds : PollStart(id)
    \/ PollRespond

\* The steps of the background task of submission i
TaskStep(i) ==
    \/ TaskStart(i)
    \/ \E t \in LLMTexts : ChunkReply(i, t)
    \/ \E t \in LLMTexts : FinalReply(i, t)
    \/ SaveOk(i)
    \/ AddOk(i)

FairTasks == \A i \in 1..MaxSubmits : WF_vars(i \in 1..Len(subs) /\ TaskStep(i))

SpecLive == InitLive /\ [][NextLive]_vars /\ FairTasks /\ WF_vars(PollRespond)

---------------------------------------------------------------------------
(* Claims about the job tracker, checked under Spec *)

\* The submissions of /submitStory whose document was stored
Submitted == {i \in 1..Len(subs) : subs[i].handler = "submitStory" /\ subs[i].id # 0}

\* The latest poll asked for the document of submission i and was answered.
PollAnswered(i) == poll.pc = "answered" /\ poll.id = ObjectId(subs[i].id)

\* C1: a poll that arrives after the background task of a submission has
\* saved the summary, and whose lookup returns, answers 200 with exactly the
\* summary the task produced, whatever text summarizeStory returned.
C1_PollAfterSaveReturnsSummary ==
    \A i \in Submitted :
        (PollAnswered(i) /\ poll.afterSave /\ poll.outcome = "doc")
            => (poll.status = 200 /\ poll.summary = subs[i].summary)

\* C3 as stated: whichever step of the background task of /submitStory
\* fails (a text-generation call, the record update, the vector-store add),
\* no client is told, the record's summary stays empty, and a poll that
\* arrives afterwards answers 202.
C3_AnyTaskFailureLeavesPending ==
    \A i \in Submitted :
        subs[i].pc = "failed"
            => /\ subs[i].status = 200
               /\ db[subs[i].id].summary = <<>>
               /\ (PollAnswered(i) /\ poll.afterFail /\ poll.outcome = "doc")
                      => poll.status = 202

\* C3 as amended: a failure of a text-generation call or of the record
\* update is reported to no client and leaves the record Pending for ever
\* (summary empty, later polls answer 202); a failure of the vector-store
\* add is reported to no client either, but comes after the save, so the
\* record keeps the summary the task saved.
C3_FailureBeforeSaveLeavesPending ==
    \A i \in Submitted :
        subs[i].pc = "failed"
            => /\ subs[i].status = 200
               /\ subs[i].failedAt \in {"summarize", "save"}
                      => /\ db[subs[i].id].summary = <<>>
                         /\ (PollAnswered(i) /\ poll.afterFail
                                 /\ poll.outcome = "doc")
                                => poll.status = 202
               /\ subs[i].failedAt = "add"
                      => db[subs[i].id].summary = subs[i].summary

\* A record update has failed and a later poll of the record answered 202.
C3_Witness ==
    \E i \in Submitted :
        /\ subs[i].failedAt = "save"
        /\ subs[i].summary # <<>>
        /\ PollAnswered(i) /\ poll.afterFail /\ poll.status = 202

\* C4: a found record is answered as Pending (202, summary empty) or as
\* Complete (200, summary set) and nothing else; when summarizeStory throws
\* in the background task the summary is never written and every later poll
\* of the record answers 202.
C4_SummarizeThrowLeavesPending ==
    /\ (poll.pc = "answered" /\ poll.outcome = "doc")
           => \/ poll.status = 202 /\ poll.summary = <<>>
              \/ poll.status = 200 /\ poll.summary # <<>>
    /\ \A i \in Submitted :
           subs[i].failedAt = "summarize"
               => /\ db[subs[i].id].summary = <<>>
                  /\ db[subs[i].id].writes = 0
                  /\ (PollAnswered(i) /\ poll.afterFail
                          /\ poll.outcome # "storeError")
                         => poll.status = 202

\* summarizeStory has thrown after a text-generation call and a later poll
\* of the record answered 202.
C4_Witness ==
    \E i \in Submitted :
        /\ subs[i].failedAt = "summarize"
        /\ subs[i].calls > 0
        /\ PollAnswered(i) /\ poll.afterFail /\ poll.status = 202

\* C5 as stated: every story-submission handler (/submitStory, /add) sends
\* its success response before the first text-generation call of the
\* submission's summarization is issued, and no call is issued while the
\* request has no response.
C5_EveryHandlerAnswersBeforeSummarizing ==
    \A i \in 1..Len(subs) :
        /\ subs[i].status = 200 => subs[i].callsAtResp = 0
        /\ subs[i].calls > 0 => subs[i].status # 0

\* C5 as amended: /submitStory sends its success response before the first
\* text-generation call of the submission is issued, and issues none while
\* the request has no response; /add awaits summarizeStory in the handler
\* and sends its success response after all its text-generation calls.
C5_SubmitStoryAnswersBeforeSummarizing ==
    \A i \in 1..Len(subs) :
        IF subs[i].handler = "submitStory"
        THEN /\ subs[i].status = 200 => subs[i].callsAtResp = 0
             /\ subs[i].calls > 0 => subs[i].status = 200
        ELSE subs[i].status = 200
                 => (subs[i].callsAtResp >= 1
                       /\ subs[i].callsAtResp = subs[i].calls)

\* A submission of /submitStory was answered and its task has since issued
\* its text-generation calls.
C5_Witness ==
    \E i \in Submitted :
        subs[i].status = 200 /\ subs[i].calls >= 1 /\ subs[i].pc = "done"

\* C6 as stated, for a step of the server: no record is deleted; a record is
\* created with an empty summary; original_story never changes; the summary
\* is written at most once, and by the task of the record's own submission.
C6_StepAsStated ==
    /\ Len(db') >= Len(db)
    /\ \A n \in 1..Len(db') :
           IF n > Len(db)
           THEN db'[n].summary = <<>> /\ db'[n].writes = 0
           ELSE /\ db'[n].original_story = db[n].original_story
                /\ db'[n].summary # db[n].summary => db'[n].writes # db[n].writes
                /\ db'[n].writes <= 1
                /\ db'[n].writes # db[n].writes
                       => /\ db'[n].writtenBy = db[n].createdBy
                          /\ subs[db[n].createdBy].pc = "saving"

C6_EveryRecordCreatedEmptyWrittenOnce == [][C6_StepAsStated]_vars

\* C6 as amended, for a step of the server: no record is deleted;
\* original_story never changes; a record created by /submitStory is created
\* with an empty summary, and its summary is written at most once, by the
\* task of its own submission; a record created by /add is created with the
\* summary of its story and is never written again.
C6_StepAsAmended ==
    /\ Len(db') >= Len(db)
    /\ \A n \in 1..Len(db') :
           IF n > Len(db)
           THEN /\ db'[n].writes = 0
                /\ IF subs'[db'[n].createdBy].handler = "submitStory"
                   THEN db'[n].summary = <<>>
                   ELSE db'[n].summary = subs'[db'[n].createdBy].summary
           ELSE /\ db'[n].original_story = db[n].original_story
                /\ db'[n].summary # db[n].summary => db'[n].writes # db[n].writes
                /\ db'[n].writes <= 1
                /\ db'[n].writes # db[n].writes
                       => /\ subs[db[n].createdBy].handler = "submitStory"
                          /\ db'[n].writtenBy = db[n].createdBy
                          /\ subs[db[n].createdBy].pc = "saving"

C6_RecordWrittenOnceByOwnTask == [][C6_StepAsAmended]_vars

\* The task of a submission has written a summary into its record.
C6_Witness ==
    \E n \in 1..Len(db) :
        /\ db[n].writes = 1
        /\ db[n].summary # <<>>
        /\ db[n].original_story = subs[db[n].createdBy].story

\* C7 as stated: a poll that arrives after submit has returned the id and
\* before the background task has saved the summary answers 202, however
\* the poll's lookup and the task's steps interleave.
C7_PollIssuedBeforeSaveIsPending ==
    (poll.pc = "answered" /\ poll.known /\ ~poll.afterSave
         /\ poll.outcome = "doc")
        => poll.status = 202

\* C7 as amended: a poll of a submitted record whose lookup (Story.findById)
\* is served before the background task has saved the summary answers 202.
C7_PollServedBeforeSaveIsPending ==
    (poll.pc = "answered" /\ poll.outcome = "doc" /\ ~poll.savedAtLookup)
        => poll.status = 202

\* A poll arrived while the task of its record was running and answered 202.
C7_Witness ==
    \E i \in Submitted :
        /\ PollAnswered(i) /\ poll.known /\ ~poll.savedAtLookup
        /\ poll.status = 202
        /\ subs[i].pc \in {"chunk", "final", "saving"}

\* C8: a poll for an id that no submit has returned, whose lookup is not
\* cut short by a failure of the store, answers 404, whatever the id looks
\* like.
C8_UnknownIdIsNotFound ==
    (poll.pc = "answered" /\ poll.outcome # "storeError"
         /\ (poll.id.malformed \/ poll.id.n \notin 1..Len(db)))
        => poll.status = 404

---------------------------------------------------------------------------
(* Claims about the response cache, checked under SpecCache *)

\* Requests i and j derived the same cache key and were both answered 200.
SameKeyAnswered(i, j) ==
    /\ reqs[i].key # <<>> /\ reqs[i].key = reqs[j].key
    /\ reqs[i].pc = "done" /\ reqs[i].status = 200
    /\ reqs[j].pc = "done" /\ reqs[j].status = 200

\* C2: with no expiry, two requests with the same derived key return the
\* same value and the text-generation service is called exactly once
\* across the two, however their steps interleave.
C2_SameKeyComputedOnce ==
    \A i, j \in 1..Len(reqs) :
        (stdTTL = 0 /\ i < j /\ SameKeyAnswered(i, j))
            => /\ reqs[i].response = reqs[j].response
               /\ reqs[i].called # reqs[j].called

\* C9: with no expiry, a request whose key equals that of a request answered
\* 200 before it arrived returns that request's value and issues no
\* text-generation call, whatever text the service had produced.
C9_SameKeyReplaysEarlierValue ==
    \A j \in 1..Len(reqs) : \A i \in reqs[j].before :
        (stdTTL = 0 /\ reqs[j].key # <<>> /\ reqs[i].key = reqs[j].key
             /\ reqs[i].status = 200)
            => /\ ~reqs[j].called
               /\ reqs[j].status = 200
               /\ reqs[j].response = reqs[i].response

\* The text-generation call of request i has failed.
CallFailed(i) == reqs[i].called /\ reqs[i].pc = "done" /\ reqs[i].threw

\* Request j is the next request with the key of the failed request i: it
\* arrived after i was answered, and no request that was answered between
\* the arrival of i and the arrival of j stored a value under the key.
NextWithKeyOf(i, j) ==
    /\ i \in reqs[j].before
    /\ CallFailed(i)
    /\ reqs[j].key = reqs[i].key
    /\ \A k \in reqs[j].before \ reqs[i].before :
           ~(reqs[k].key = reqs[i].key /\ reqs[k].status = 200)

C14_FailStep ==
    \A i \in 1..Len(reqs) :
        (reqs[i].pc = "await" /\ reqs'[i].pc = "done" /\ reqs'[i].threw)
            => /\ cache' = cache
               /\ reqs'[i].status = 500

C14_Retry ==
    \A i, j \in 1..Len(reqs) : NextWithKeyOf(i, j) => reqs[j].called

\* C14: when the text-generation call of a /charactername or /ask request
\* fails, the cache is left as it was and the request answers 500; the next
\* request with the same key issues a new text-generation call.
C14_FailedCallIsNotCached == [][C14_FailStep]_vars /\ []C14_Retry

C14_Witness ==
    \E i, j \in 1..Len(reqs) :
        /\ NextWithKeyOf(i, j)
        /\ reqs[j].pc = "done" /\ reqs[j].status = 200
        /\ \E e \in cache : e.key = reqs[i].key /\ e.value = reqs[j].response

\* Request j looked its key up and found an expired entry: it issues a
\* text-generation call.
C16_ExpiredIsMiss ==
    \A j \in 1..Len(reqs) :
        (stdTTL # 0 /\ reqs[j].key # <<>> /\ reqs[j].entry = "expired")
            => reqs[j].called

\* C16: with a time-to-live configured, a request that arrives after the
\* entry of its key has expired issues a new text-generation call and stores
\* the result; a request that arrives before the expiry is answered from the
\* cache with no call.
C16_ExpiredIsMissLiveIsHit ==
    \A j \in 1..Len(reqs) :
        (stdTTL # 0 /\ reqs[j].key # <<>>)
            => /\ reqs[j].entry = "expired" => reqs[j].called
               /\ reqs[j].entry = "live"
                     => /\ ~reqs[j].called
                        /\ reqs[j].pc = "done" /\ reqs[j].status = 200

\* The bodies of requests i and j differ, but only after the first
\* KeyPrefixLen characters of the story, or of the query and of the
\* summarizedStory.
AgreeOnPrefix(i, j) ==
    LET a == reqs[i].body
        b == reqs[j].body
        same(u, v) == /\ u # undefined /\ v # undefined
                      /\ substring(u, 0, KeyPrefixLen) = substring(v, 0, KeyPrefixLen)
    IN  /\ reqs[i].endpoint = reqs[j].endpoint
        /\ a # b
        /\ IF reqs[i].endpoint = "charactername"
           THEN same(a.story, b.story)
           ELSE /\ same(a.query, b.query)
                /\ same(a.summarizedStory, b.summarizedStory)
                /\ a.characterName = b.characterName

C17_PrefixGivesSameKey ==
    \A i, j \in 1..Len(reqs) : AgreeOnPrefix(i, j) => reqs[i].key = reqs[j].key

\* C17: two requests whose inputs agree on their first 50 characters derive
\* the same key, and the second is answered with the value cached for the
\* first.
C17_PrefixSharesCachedAnswer ==
    \A j \in 1..Len(reqs) : \A i \in reqs[j].before :
        (stdTTL = 0 /\ AgreeOnPrefix(i, j) /\ reqs[i].status = 200)
            => /\ reqs[i].key = reqs[j].key
               /\ ~reqs[j].called
               /\ reqs[j].pc = "done" /\ reqs[j].status = 200
               /\ reqs[j].response = reqs[i].response

\* The triple the key of an /ask request is derived from
Triple(r) ==
    <<substring(r.body.query, 0, KeyPrefixLen), r.body.characterName,
      substring(r.body.summarizedStory, 0, KeyPrefixLen)>>

\* Requests i and j are /ask requests that derived a key.
BothAsk(i, j) ==
    /\ reqs[i].endpoint = "ask" /\ reqs[i].key # <<>>
    /\ reqs[j].endpoint = "ask" /\ reqs[j].key # <<>>

\* C22: two /ask requests whose triples (first 50 characters of query,
\* characterName, first 50 characters of summarizedStory) differ never
\* derive the same key.
C22_AskKeyInjective ==
    \A i, j \in 1..Len(reqs) :
        (BothAsk(i, j) /\ Triple(reqs[i]) # Triple(reqs[j]))
            => reqs[i].key # reqs[j].key

\* The consequence: an /ask request is never answered from the cache with
\* the value computed for a request of another triple.
C22_NoReplayAcrossTriples ==
    \A j \in 1..Len(reqs) : \A i \in reqs[j].before :
        (BothAsk(i, j) /\ Triple(reqs[i]) # Triple(reqs[j])
             /\ reqs[i].called /\ reqs[i].status = 200
             /\ ~reqs[j].called /\ reqs[j].status = 200)
            => reqs[j].response # reqs[i].response

---------------------------------------------------------------------------
(* Claims about all handlers, checked under SpecHandlers *)

\* A submission, a poll or a cached request whose handler raised a failure
\* has been answered 500 with the message of its handler.
AnsweredError(r, handler) == r.status = 500 /\ r.error = ErrorMessage(handler)

\* A request has one response when its handler has finished, none before.
OneResponse(r, finished) == r.sent = (IF finished THEN 1 ELSE 0)

C15_Submissions ==
    \A i \in 1..Len(subs) :
        LET s == subs[i]
        IN  /\ s.threw => AnsweredError(s, s.handler)
            /\ OneResponse(s, s.status # 0)
            /\ s.handler = "submitStory" => s.status # 0
            /\ (s.handler = "add" /\ s.pc \in {"done", "failed"}) => s.status # 0

C15_Poll ==
    /\ poll.outcome \in {"CastError", "storeError"}
          => AnsweredError(poll, "getSummary")
    /\ OneResponse(poll, poll.pc = "answered")
    /\ poll.pc = "answered" => poll.status # 0

C15_Cached ==
    \A i \in 1..Len(reqs) :
        LET r == reqs[i]
        IN  /\ r.threw => AnsweredError(r, r.endpoint)
            /\ OneResponse(r, r.pc = "done")
            /\ r.pc = "done" => r.status # 0

\* C15: every failure raised in a request handler is answered 500 with the
\* fixed message of that handler, and every request receives one response
\* and no more.
C15_HandlerFailuresAnswered500 == C15_Submissions /\ C15_Poll /\ C15_Cached

C15_Witness ==
    /\ \E i, j \in 1..Len(subs) :
           /\ subs[i].handler = "submitStory" /\ subs[i].threw
           /\ subs[j].handler = "submitStory" /\ subs[j].failedAt = "summarize"
           /\ subs[j].status = 200 /\ subs[j].sent = 1
    /\ poll.outcome = "CastError" /\ poll.sent = 1

C15_WitnessAdd ==
    \E i \in 1..Len(subs) :
        subs[i].handler = "add" /\ subs[i].threw /\ subs[i].failedAt = "add"

C15_WitnessCached ==
    \E i, j \in 1..Len(reqs) :
        /\ reqs[i].threw /\ ~reqs[i].called
        /\ reqs[j].threw /\ reqs[j].called

---------------------------------------------------------------------------
(* Claims about summarizeStory, checked under SpecSummarizer *)

\* The number of chunks of the story of submission s
NChunks(s) == IF variant = "part_000" THEN 0 ELSE Len(Chunks(s.story))

\* summarizeStory has returned for submission s.
Summarized(s) ==
    s.pc \in {"saving", "adding", "done"} \/ s.failedAt \in {"save", "add"}

\* C18: in one invocation of summarizeStory over N chunks at most one
\* text-generation call is outstanding, the call awaited at chunk k is the
\* k-th call and carries chunk k, the final call is issued when N calls have
\* returned, and an invocation that returns has made N + 1 calls.
C18_CallsOneAtATimeInOrder ==
    \A i \in 1..Len(subs) :
        LET s == subs[i]
        IN  IF variant # "part_000" /\ s.story = undefined
            THEN s.calls = 0
            ELSE /\ s.calls - s.returned \in {0, 1}
                 /\ s.pc = "chunk"
                       => /\ s.k \in 1..NChunks(s)
                          /\ s.calls = s.k /\ s.returned = s.k - 1
                          /\ s.userContent = ChunkRequest(Chunks(s.story)[s.k])
                 /\ s.pc = "final"
                       => /\ s.returned = NChunks(s)
                          /\ s.calls = NChunks(s) + 1
                          /\ s.userContent.template = "story"
                 /\ Summarized(s)
                       => /\ s.calls = NChunks(s) + 1
                          /\ s.returned = NChunks(s) + 1

C18_Witness ==
    \E i \in 1..Len(subs) :
        /\ subs[i].story = LongStory
        /\ NChunks(subs[i]) = 2
        /\ Summarized(subs[i])
        /\ subs[i].calls = 3

\* C20: the user content of the final text-generation request of
\* summarizeStory is built from fullSummary, the concatenation of the
\* summaries of the chunks.
C20_FinalRequestCarriesFullSummary ==
    \A i \in 1..Len(subs) :
        subs[i].pc = "final"
            => subs[i].userContent.arg = Interpolate(subs[i].fullSummary)

\* What the code does: the final request carries the story itself.
C20_FinalRequestCarriesStory ==
    \A i \in 1..Len(subs) :
        subs[i].pc = "final"
            => subs[i].userContent = FinalRequest(subs[i].story)

---------------------------------------------------------------------------
(* A claim about concurrent submissions, checked under Spec *)

\* C19: in every interleaving of the background tasks, a task writes the
\* document its own submission created and no other, and the summary stored
\* in a document is the reply to the request built from that document's
\* original_story.
C19_TaskWritesOwnRecordOnly ==
    /\ \A n \in 1..Len(db) :
           LET d == db[n]
               s == subs[d.createdBy]
           IN  d.writes > 0
                   => /\ d.writtenBy = d.createdBy
                      /\ s.id = n
                      /\ d.summary = s.summary
                      /\ s.userContent = FinalRequest(d.original_story)
    /\ \A i \in Submitted :
           subs[i].saved => /\ db[subs[i].id].writtenBy = i
                            /\ db[subs[i].id].summary = subs[i].summary

C19_Witness ==
    /\ Len(db) = 2
    /\ db[1].original_story # db[2].original_story
    /\ db[2].writes = 1 /\ db[2].writtenBy = 2
    /\ db[1].writes = 0
    /\ subs[1].pc = "final" /\ subs[2].saved

---------------------------------------------------------------------------
(* A liveness claim, checked under SpecLive *)

\* The submission of the n-th request was acknowledged with 200.
Acknowledged(n) == n \in 1..Len(subs) /\ subs[n].status = 200

\* A poll of the record of submission n would answer 200 with a summary:
\* the record's summary passes the test `if (storyDoc.summary)`.
PollWouldAnswerSummary(n) ==
    /\ n \in 1..Len(subs)
    /\ subs[n].id \in 1..Len(db)
    /\ Truthy(db[subs[n].id].summary)

\* C21: when every call returns successfully and the background tasks are
\* scheduled fairly, every record whose submission was acknowledged with 200
\* eventually is in the state in which a poll answers 200 with a summary.
C21_AcknowledgedEventuallyHasSummary ==
    \A n \in 1..MaxSubmits : Acknowledged(n) ~> PollWouldAnswerSummary(n)

\* What the code does reach: the task of a submission whose story
\* summarizeStory accepts saves the summary it computed, empty or not.
C21_TaskEventuallySaves ==
    \A n \in 1..MaxSubmits :
        (Acknowledged(n) /\ (variant = "part_000" \/ subs[n].story # undefined))
            ~> (/\ n \in 1..Len(subs)
                /\ subs[n].saved
                /\ db[subs[n].id].summary = subs[n].summary)

---------------------------------------------------------------------------
(* Claims about chunkStory, checked under SpecChunk *)

\* C10: no chunk returned by chunkStory is the empty string.
C10_NoChunkIsEmpty ==
    chunkPc = "done" => \A k \in 1..Len(chunks) : chunks[k] # <<>>

\* The words of a text: its non-empty pieces between spaces
Words(t) == SelectSeq(split(t), LAMBDA w : w # <<>>)

\* chunks.join(' ')
RECURSIVE JoinWithSpaces(_)
JoinWithSpaces(cs) ==
    IF cs = <<>> THEN <<>>
    ELSE IF Len(cs) = 1 THEN cs[1]
    ELSE cs[1] \o <<Space>> \o JoinWithSpaces(Tail(cs))

\* The words of all the chunks, chunk after chunk
RECURSIVE WordsOfChunks(_)
WordsOfChunks(cs) ==
    IF cs = <<>> THEN <<>> ELSE Words(Head(cs)) \o WordsOfChunks(Tail(cs))

Last(q) == q[Len(q)]

\* The last chunk of the result ends with the last word of the text.
LastChunkHoldsLastWord ==
    /\ Words(Last(chunks)) # <<>>
    /\ Last(Words(Last(chunks))) = Last(Words(text))

\* C11 as stated: chunkStory returns at least one chunk for every non-empty
\* text, texts made only of spaces included, and the last, partially filled
\* chunk is part of the result.
C11_NonEmptyTextGivesChunk ==
    (chunkPc = "done" /\ text # <<>>)
        => (Len(chunks) >= 1 /\ LastChunkHoldsLastWord)

\* C11 as amended: chunkStory returns at least one chunk for every text that
\* holds a word (a character other than a space), and the last, partially
\* filled chunk, the one that holds the text's last word, is part of the
\* result; for a text made only of spaces (as for the empty text) it returns
\* no chunk.
C11_TextWithWordGivesChunk ==
    chunkPc = "done"
        => IF Words(text) # <<>>
           THEN Len(chunks) >= 1 /\ LastChunkHoldsLastWord
           ELSE chunks = <<>>

\* A text of several chunks whose last chunk is not filled
C11_Witness ==
    /\ chunkPc = "done"
    /\ Len(chunks) >= 2
    /\ Len(Last(chunks)) < maxChunkSize
    /\ LastChunkHoldsLastWord

\* C12: the chunks joined with single spaces and split into words give the
\* words of the text, in order: no word is dropped, duplicated, reordered or
\* split across two chunks, also when a word is longer than maxChunkSize.
C12_ChunksKeepTheWords ==
    chunkPc = "done"
        => /\ Words(JoinWithSpaces(chunks)) = Words(text)
           /\ WordsOfChunks(chunks) = Words(text)

\* A text with a word longer than maxChunkSize and a second word, chunked
C12_Witness ==
    /\ chunkPc = "done"
    /\ Len(Words(text)) >= 2
    /\ \E k \in 1..Len(Words(text)) : Len(Words(text)[k]) > maxChunkSize
    /\ Len(chunks) >= 2

\* C13: every chunk is at most maxChunkSize characters long, unless it is one
\* single piece of the text (no space in it) that alone is longer than
\* maxChunkSize.
C13_ChunkLengthBounded ==
    chunkPc = "done"
        => \A k \in 1..Len(chunks) :
               \/ Len(chunks[k]) <= maxChunkSize
               \/ /\ \A j \in 1..Len(chunks[k]) : chunks[k][j] # Space
                  /\ \E j \in 1..Len(split(text)) : split(text)[j] = chunks[k]

\* A result with a chunk of several words that fills maxChunkSize and a
\* result with a chunk of one word longer than maxChunkSize
C13_Witness ==
    /\ chunkPc = "done"
    /\ \E k \in 1..Len(chunks) :
           \/ Len(chunks[k]) = maxChunkSize /\ Len(Words(chunks[k])) >= 2
           \/ Len(chunks[k]) > maxChunkSize

====
